---------------------------- MODULE Spec2Model ----------------------------
(***************************************************************************)
(* Model of src/submit.py: a payload is assembled from the environment,    *)
(* serialised canonically, signed with HMAC and POSTed once; the receipt   *)
(* of the response is printed.                                             *)
(*                                                                         *)
(* Python str values are sequences of characters, one TLA+ string per code *)
(* point ("U+00E9" is the one non-ASCII code point of the model); Python   *)
(* bytes values are sequences of integers 0..255.                          *)
(***************************************************************************)
EXTENDS Integers, Sequences, FiniteSets, TLC

VARIABLES
    environ,     \* os.environ: variable name -> str, or None when unset
    clock,       \* the UTC wall clock read by iso_utc_now
    pc,          \* position of the process
    ctx,         \* main: ctx (the dict of get_submission_context), <<>> until bound
    payload,     \* main: payload, a dict kept as its items in insertion order
    body,        \* submit_application: body (bytes)
    signature,   \* submit_application: signature (str)
    requests,    \* the requests handed to the network by urlopen, in order
    net,         \* what the network answers to the request
    exc,         \* the exception in flight, or NoExc
    ret,         \* the value submit_application returned, or None
    stdout,      \* the texts print() wrote to standard output, in order
    stderr,      \* the lines the interpreter wrote to standard error
    exit_code    \* the process's exit status, -1 while it runs

vars == <<environ, clock, pc, ctx, payload, body, signature, requests, net,
          exc, ret, stdout, stderr, exit_code>>

\* Python's None; no str of the model equals it.
None == <<"None">>

--------------------------------------------------------------------------
\* Characters and their code points.

CodePoints ==
    {
      <<"\n", 10>>, <<" ", 32>>, <<"!", 33>>, <<"\"", 34>>, <<"#", 35>>, <<"$", 36>>,
      <<"%", 37>>, <<"&", 38>>, <<"'", 39>>, <<"(", 40>>, <<")", 41>>, <<"*", 42>>,
      <<"+", 43>>, <<",", 44>>, <<"-", 45>>, <<".", 46>>, <<"/", 47>>, <<"0", 48>>,
      <<"1", 49>>, <<"2", 50>>, <<"3", 51>>, <<"4", 52>>, <<"5", 53>>, <<"6", 54>>,
      <<"7", 55>>, <<"8", 56>>, <<"9", 57>>, <<":", 58>>, <<";", 59>>, <<"<", 60>>,
      <<"=", 61>>, <<">", 62>>, <<"?", 63>>, <<"@", 64>>, <<"A", 65>>, <<"B", 66>>,
      <<"C", 67>>, <<"D", 68>>, <<"E", 69>>, <<"F", 70>>, <<"G", 71>>, <<"H", 72>>,
      <<"I", 73>>, <<"J", 74>>, <<"K", 75>>, <<"L", 76>>, <<"M", 77>>, <<"N", 78>>,
      <<"O", 79>>, <<"P", 80>>, <<"Q", 81>>, <<"R", 82>>, <<"S", 83>>, <<"T", 84>>,
      <<"U", 85>>, <<"V", 86>>, <<"W", 87>>, <<"X", 88>>, <<"Y", 89>>, <<"Z", 90>>,
      <<"[", 91>>, <<"\\", 92>>, <<"]", 93>>, <<"^", 94>>, <<"_", 95>>, <<"a", 97>>,
      <<"b", 98>>, <<"c", 99>>, <<"d", 100>>, <<"e", 101>>, <<"f", 102>>, <<"g", 103>>,
      <<"h", 104>>, <<"i", 105>>, <<"j", 106>>, <<"k", 107>>, <<"l", 108>>, <<"m", 109>>,
      <<"n", 110>>, <<"o", 111>>, <<"p", 112>>, <<"q", 113>>, <<"r", 114>>, <<"s", 115>>,
      <<"t", 116>>, <<"u", 117>>, <<"v", 118>>, <<"w", 119>>, <<"x", 120>>, <<"y", 121>>,
      <<"z", 122>>, <<"{", 123>>, <<"|", 124>>, <<"}", 125>>, <<"~", 126>>, <<"U+00E9", 233>> }

Chars == {p[1] : p \in CodePoints}

Ord[c \in Chars] == (CHOOSE p \in CodePoints : p[1] = c)[2]

Chr(n) == CHOOSE c \in Chars : Ord[c] = n

Digits == <<"0", "1", "2", "3", "4", "5", "6", "7", "8", "9">>

HexDigits == <<"0", "1", "2", "3", "4", "5", "6", "7", "8", "9", "a", "b", "c", "d", "e", "f">>

\* a < b for two str values: the comparison of sorted() on dict keys
RECURSIVE StrLess(_, _)
StrLess(a, b) ==
    IF b = <<>> THEN FALSE
    ELSE IF a = <<>> THEN TRUE
    ELSE IF Ord[Head(a)] # Ord[Head(b)] THEN Ord[Head(a)] < Ord[Head(b)]
    ELSE StrLess(Tail(a), Tail(b))

\* Whether sequence s holds sequence t as a contiguous part
Contains(s, t) ==
    \E i \in 0..(Len(s) - Len(t)) : SubSeq(s, i + 1, i + Len(t)) = t

RECURSIVE Concat(_)
Concat(ss) == IF ss = <<>> THEN <<>> ELSE Head(ss) \o Concat(Tail(ss))

\* n in decimal, at least width digits: format(n, "0{width}d")
RECURSIVE Pad(_, _)
Pad(n, width) ==
    IF n < 10 /\ width <= 1 THEN <<Digits[n + 1]>>
    ELSE Pad(n \div 10, width - 1) \o <<Digits[(n % 10) + 1]>>

\* str(x) inside an f-string: None is rendered as the text None
Fmt(x) == IF x = None THEN <<"N", "o", "n", "e">> ELSE x

\* s.replace(old, new)
RECURSIVE Replace(_, _, _)
Replace(s, old, new) ==
    IF Len(s) < Len(old) THEN s
    ELSE IF SubSeq(s, 1, Len(old)) = old
         THEN new \o Replace(SubSeq(s, Len(old) + 1, Len(s)), old, new)
         ELSE <<Head(s)>> \o Replace(Tail(s), old, new)

\* s.encode("utf-8"), for code points below U+0800
Utf8Char(c) ==
    IF Ord[c] < 128 THEN <<Ord[c]>>
    ELSE <<192 + (Ord[c] \div 64), 128 + (Ord[c] % 64)>>

\* the encoding of s[lo..hi], by halves
RECURSIVE Utf8Range(_, _, _)
Utf8Range(s, lo, hi) ==
    IF lo > hi THEN <<>>
    ELSE IF lo = hi THEN Utf8Char(s[lo])
    ELSE Utf8Range(s, lo, (lo + hi) \div 2) \o Utf8Range(s, ((lo + hi) \div 2) + 1, hi)

Utf8(s) == Utf8Range(s, 1, Len(s))

\* Whether bytes b are valid UTF-8 within the model's code points
RECURSIVE Utf8Valid(_)
Utf8Valid(b) ==
    IF b = <<>> THEN TRUE
    ELSE IF b[1] < 128 THEN (\E c \in Chars : Ord[c] = b[1]) /\ Utf8Valid(Tail(b))
    ELSE IF b[1] >= 194 /\ b[1] < 224 /\ Len(b) >= 2
         THEN /\ b[2] >= 128 /\ b[2] < 192
              /\ \E c \in Chars : Ord[c] = (b[1] - 192) * 64 + (b[2] - 128)
              /\ Utf8Valid(SubSeq(b, 3, Len(b)))
         ELSE FALSE

\* b.decode("utf-8") of valid bytes
RECURSIVE Utf8Decode(_)
Utf8Decode(b) ==
    IF b = <<>> THEN <<>>
    ELSE IF b[1] < 128 THEN <<Chr(b[1])>> \o Utf8Decode(Tail(b))
    ELSE <<Chr((b[1] - 192) * 64 + (b[2] - 128))>> \o Utf8Decode(SubSeq(b, 3, Len(b)))

--------------------------------------------------------------------------
\* iso_utc_now: the clock as YYYY-MM-DDTHH:MM:SS.mmm+00:00, "+00:00" -> "Z"

isoformat(t) ==
    Concat(<<Pad(t.year, 4), <<"-">>, Pad(t.month, 2), <<"-">>, Pad(t.day, 2), <<"T">>,
             Pad(t.hour, 2), <<":">>, Pad(t.minute, 2), <<":">>, Pad(t.second, 2),
             <<".">>, Pad(t.millisecond, 3), <<"+", "0", "0", ":", "0", "0">>>>)

iso_utc_now(t) == Replace(isoformat(t), <<"+", "0", "0", ":", "0", "0">>, <<"Z">>)

--------------------------------------------------------------------------
\* canonical_json: json.dumps(payload, separators=(",", ":"), sort_keys=True,
\* ensure_ascii=False).encode("utf-8"). A dict is the sequence of its
\* <<key, value>> items in insertion order, keys distinct.

\* json's escape of one character of a string (ensure_ascii=False)
EscapeChar(c) ==
    IF c = "\"" THEN <<"\\", "\"">>
    ELSE IF c = "\\" THEN <<"\\", "\\">>
    ELSE IF c = "\n" THEN <<"\\", "n">>
    ELSE IF Ord[c] < 32
         THEN <<"\\", "u", "0", "0">> \o <<HexDigits[(Ord[c] \div 16) + 1], HexDigits[(Ord[c] % 16) + 1]>>
         ELSE <<c>>

RECURSIVE EscapeStr(_)
EscapeStr(s) == IF s = <<>> THEN <<>> ELSE EscapeChar(Head(s)) \o EscapeStr(Tail(s))

\* json.dumps of a leaf: a str, or None
DumpsValue(v) == IF v = None THEN <<"n", "u", "l", "l">> ELSE <<"\"">> \o EscapeStr(v) \o <<"\"">>

\* Insert item into the items sorted by key
RECURSIVE InsertSorted(_, _)
InsertSorted(item, items) ==
    IF items = <<>> THEN <<item>>
    ELSE IF StrLess(item[1], Head(items)[1]) THEN <<item>> \o items
    ELSE <<Head(items)>> \o InsertSorted(item, Tail(items))

\* sorted(dct.items()), the effect of sort_keys=True
RECURSIVE SortItems(_)
SortItems(items) ==
    IF items = <<>> THEN <<>> ELSE InsertSorted(Head(items), SortItems(Tail(items)))

\* sort_keys=False: the items in insertion order
UnsortedItems(items) == items

ItemsInOutputOrder(items) == SortItems(items)

RECURSIVE DumpsMembers(_)
DumpsMembers(items) ==
    IF items = <<>> THEN <<>>
    ELSE DumpsValue(Head(items)[1]) \o <<":">> \o DumpsValue(Head(items)[2])
         \o (IF Len(items) > 1 THEN <<",">> ELSE <<>>)
         \o DumpsMembers(Tail(items))

json_dumps(items) == <<"{">> \o DumpsMembers(ItemsInOutputOrder(items)) \o <<"}">>

canonical_json(items) == Utf8(json_dumps(items))

--------------------------------------------------------------------------
\* generate_signature. SHA-256 is stood for by a 32-byte checksum of the
\* message (every byte and its position contribute); the HMAC construction
\* around it, the hex digest and the "sha256=" prefix are as in hmac/hashlib.

DigestSize == 32

BlockSize == 64

RECURSIVE Xor(_, _)
Xor(a, b) ==
    IF a = 0 /\ b = 0 THEN 0
    ELSE ((a + b) % 2) + 2 * Xor(a \div 2, b \div 2)

\* the sum over msg[lo..hi] of each byte weighted by its position, by halves
RECURSIVE Absorb(_, _, _)
Absorb(msg, lo, hi) ==
    IF lo > hi THEN 0
    ELSE IF lo = hi THEN ((msg[lo] + 1) * (lo + 30)) % 65521
    ELSE (Absorb(msg, lo, (lo + hi) \div 2) + Absorb(msg, ((lo + hi) \div 2) + 1, hi)) % 65521

Hash(msg) ==
    LET acc == Absorb(msg, 1, Len(msg))
    IN  [i \in 1..DigestSize |-> (acc * i + (acc \div 256) + 13 * i) % 256]

\* the key zero-padded to the block size (keys of the model are shorter)
KeyBlock(key) == [i \in 1..BlockSize |-> IF i <= Len(key) THEN key[i] ELSE 0]

XorPad(block, pad) == [i \in 1..BlockSize |-> Xor(block[i], pad)]

\* hmac.new(key, msg, hashlib.sha256).digest()
HmacDigest(key, msg) ==
    Hash(XorPad(KeyBlock(key), 92) \o Hash(XorPad(KeyBlock(key), 54) \o msg))

RECURSIVE Hex(_)
Hex(b) ==
    IF b = <<>> THEN <<>>
    ELSE <<HexDigits[(b[1] \div 16) + 1], HexDigits[(b[1] % 16) + 1]>> \o Hex(Tail(b))

\* a signature computed without the secret
generate_signature_unkeyed(secret, msg) == <<"s", "h", "a", "2", "5", "6", "=">> \o Hex(HmacDigest(<<>>, msg))

generate_signature(secret, msg) == <<"s", "h", "a", "2", "5", "6", "=">> \o Hex(HmacDigest(Utf8(secret), msg))

--------------------------------------------------------------------------
\* Dicts, kept as the sequence of their <<key, value>> items.

RECURSIVE DictGet(_, _)
\* d.get(key): the value, or None
DictGet(items, key) ==
    IF items = <<>> THEN None
    ELSE IF Head(items)[1] = key THEN Head(items)[2]
    ELSE DictGet(Tail(items), key)

DictKeys(items) == {items[i][1] : i \in DOMAIN items}

\* d[key] = value: a present key keeps its place
DictSet(items, key, value) ==
    IF key \in DictKeys(items)
    THEN [i \in DOMAIN items |-> IF items[i][1] = key THEN <<key, value>> ELSE items[i]]
    ELSE Append(items, <<key, value>>)

\* bool(x) of a str or None
Truthy(x) == x # None /\ x # <<>>

\* a test for None in place of the truth test
IsNotNone(x) == x # None

ReceiptAccepted(x) == Truthy(x)

--------------------------------------------------------------------------
\* json.loads, for the documents the model's responses hold: an object
\* whose member values are strings or null, a string, null, or the empty
\* array. A result is [ok, t, v, next]: t the Python type of the value, v
\* the str / the items of the dict, next the index after the value.

JsonWhitespace == {" ", "\n"}

Failed == [ok |-> FALSE, t |-> "", v |-> <<>>, next |-> 0]

Parsed(t, v, next) == [ok |-> TRUE, t |-> t, v |-> v, next |-> next]

RECURSIVE SkipWs(_, _)
SkipWs(s, i) ==
    IF i <= Len(s) /\ s[i] \in JsonWhitespace THEN SkipWs(s, i + 1) ELSE i

\* the string whose opening quote is before index i; acc is what was read
RECURSIVE ScanString(_, _, _)
ScanString(s, i, acc) ==
    IF i > Len(s) THEN Failed
    ELSE IF s[i] = "\"" THEN Parsed("str", acc, i + 1)
    ELSE IF s[i] = "\\"
         THEN IF i + 1 > Len(s) THEN Failed
              ELSE IF s[i + 1] \in {"\"", "\\", "/"}
                   THEN ScanString(s, i + 2, Append(acc, s[i + 1]))
              ELSE IF s[i + 1] = "n" THEN ScanString(s, i + 2, Append(acc, "\n"))
              ELSE Failed
    ELSE IF Ord[s[i]] < 32 THEN Failed
    ELSE ScanString(s, i + 1, Append(acc, s[i]))

\* a member value: a string or null
ParseLeaf(s, i) ==
    IF i > Len(s) THEN Failed
    ELSE IF s[i] = "\"" THEN ScanString(s, i + 1, <<>>)
    ELSE IF i + 3 <= Len(s) /\ SubSeq(s, i, i + 3) = <<"n", "u", "l", "l">> THEN Parsed("NoneType", None, i + 4)
    ELSE Failed

\* the members of an object from index i (after "{" or ","); acc the items read
RECURSIVE ParseMembers(_, _, _)
ParseMembers(s, i, acc) ==
    LET k == SkipWs(s, i)
    IN  IF k > Len(s) \/ s[k] # "\"" THEN Failed
        ELSE LET key == ScanString(s, k + 1, <<>>)
                 c   == SkipWs(s, key.next)
             IN  IF ~key.ok \/ c > Len(s) \/ s[c] # ":" THEN Failed
                 ELSE LET val == ParseLeaf(s, SkipWs(s, c + 1))
                          e   == SkipWs(s, val.next)
                          got == DictSet(acc, key.v, IF val.t = "str" THEN val.v ELSE None)
                      IN  IF ~val.ok \/ e > Len(s) THEN Failed
                          ELSE IF s[e] = "}" THEN Parsed("dict", got, e + 1)
                          ELSE IF s[e] = "," THEN ParseMembers(s, e + 1, got)
                          ELSE Failed

ParseValue(s, i) ==
    IF i > Len(s) THEN Failed
    ELSE IF s[i] = "{"
         THEN LET k == SkipWs(s, i + 1)
              IN  IF k <= Len(s) /\ s[k] = "}" THEN Parsed("dict", <<>>, k + 1)
                  ELSE ParseMembers(s, i + 1, <<>>)
    ELSE IF s[i] = "["
         THEN LET k == SkipWs(s, i + 1)
              IN  IF k <= Len(s) /\ s[k] = "]" THEN Parsed("list", <<>>, k + 1) ELSE Failed
    ELSE ParseLeaf(s, i)

\* json.loads(s): ok is FALSE where it raises JSONDecodeError
json_loads(s) ==
    LET r == ParseValue(s, SkipWs(s, 1))
    IN  IF r.ok /\ SkipWs(s, r.next) = Len(s) + 1 THEN r ELSE Failed

--------------------------------------------------------------------------
\* Exceptions: the type's name, the message where the source builds it,
\* and the status code an HTTPError holds.

NoExc == [type |-> <<>>, msg |-> <<>>, code |-> 0]

Exception(type, msg) == [type |-> type, msg |-> msg, code |-> 0]

HTTPError(status) == [type |-> <<"H", "T", "T", "P", "E", "r", "r", "o", "r">>, msg |-> <<>>, code |-> status]

MissingGitHubMessage ==
    <<"M", "i", "s", "s", "i", "n", "g", " ", "G", "i", "t", "H", "u", "b", " ", "A", "c", "t", "i", "o", "n", "s", " ", "e", "n", "v", "i", "r", "o", "n", "m", "e", "n", "t", " ", "v", "a", "r", "i", "a", "b", "l", "e", "s", ";", " ", "a", "r", "e", " ", "y", "o", "u", " ", "r", "u", "n", "n", "i", "n", "g", " ", "i", "n", " ", "G", "i", "t", "H", "u", "b", " ", "A", "c", "t", "i", "o", "n", "s", "?">>

\* f"Invalid response: {resp.status} - {resp_body}"
InvalidResponse(status, resp_body) ==
    Exception(<<"R", "u", "n", "t", "i", "m", "e", "E", "r", "r", "o", "r">>, <<"I", "n", "v", "a", "l", "i", "d", " ", "r", "e", "s", "p", "o", "n", "s", "e", ":", " ">> \o Pad(status, 1) \o <<" ", "-", " ">> \o resp_body)

\* KeyError(name): its message is repr(name)
KeyError(name) == Exception(<<"K", "e", "y", "E", "r", "r", "o", "r">>, <<"'">> \o name \o <<"'">>)

\* the last line of the traceback of an uncaught exception
TracebackLine(e) == e.type \o (IF e.msg = <<>> THEN <<>> ELSE <<":", " ">> \o e.msg)

--------------------------------------------------------------------------
\* The environment and get_submission_context.

SUBMISSION_URL == <<"h", "t", "t", "p", "s", ":", "/", "/", "b", "1", "2", ".", "i", "o", "/", "a", "p", "p", "l", "y", "/", "s", "u", "b", "m", "i", "s", "s", "i", "o", "n">>

EnvNames ==
    {"GITHUB_SERVER_URL", "GITHUB_REPOSITORY", "GITHUB_RUN_ID",
     "NAME", "EMAIL", "RESUME_LINK", "SIGNING_SECRET"}

\* the str a variable holds when it is set and not empty
EnvValue ==
    [n \in EnvNames |->
        CASE n = "GITHUB_SERVER_URL" -> <<"h", "t", "t", "p", "s", ":", "/", "/", "g", "i", "t", "h", "u", "b", ".", "c", "o", "m">>
          [] n = "GITHUB_REPOSITORY" -> <<"g", "e", "l", "i", "d", "e", "v", "/", "b", "1", "2", "-", "a", "p", "p", "l", "i", "c", "a", "t", "i", "o", "n">>
          [] n = "GITHUB_RUN_ID"     -> <<"4", "2">>
          [] n = "NAME"              -> <<"R", "e", "n", "U+00E9", "e", " ", "\"", "R", "\"", " ", "D", "o", "e">>
          [] n = "EMAIL"             -> <<"r", "@", "e", "x", "a", "m", "p", "l", "e", ".", "c", "o", "m">>
          [] n = "RESUME_LINK"       -> <<"h", "t", "t", "p", "s", ":", "/", "/", "e", "x", "a", "m", "p", "l", "e", ".", "c", "o", "m", "/", "c", "v">>
          [] n = "SIGNING_SECRET"    -> <<"s", "3", "c", "r", "e", "t">>]

\* every variable is unset, empty or set
Environments == [EnvNames -> {"unset", "empty", "set"}]

EnvOf(e) ==
    [n \in EnvNames |->
        CASE e[n] = "unset" -> None
          [] e[n] = "empty" -> <<>>
          [] e[n] = "set"   -> EnvValue[n]]

Clocks ==
    { [year |-> 2026, month |-> 1, day |-> 6, hour |-> 16, minute |-> 59,
       second |-> 37, millisecond |-> 571],
      [year |-> 2026, month |-> 11, day |-> 4, hour |-> 0, minute |-> 0,
       second |-> 5, millisecond |-> 0] }

\* the test only fails when none of the three is set
MissingGithubVarsAny(server, repo, run_id) ==
    ~(Truthy(server) \/ Truthy(repo) \/ Truthy(run_id))

\* not all([server, repo, run_id])
MissingGithubVars(server, repo, run_id) ==
    ~(Truthy(server) /\ Truthy(repo) /\ Truthy(run_id))

\* the variables read with os.environ[...], in the order the dict literal reads them
Subscripted == <<"NAME", "EMAIL", "RESUME_LINK", "SIGNING_SECRET">>

EnvKey(n) ==
    CASE n = "NAME" -> <<"N", "A", "M", "E">>
      [] n = "EMAIL" -> <<"E", "M", "A", "I", "L">>
      [] n = "RESUME_LINK" -> <<"R", "E", "S", "U", "M", "E", "_", "L", "I", "N", "K">>
      [] n = "SIGNING_SECRET" -> <<"S", "I", "G", "N", "I", "N", "G", "_", "S", "E", "C", "R", "E", "T">>

\* the first os.environ[...] that raises KeyError, 0 when none does
FirstUnset(env) ==
    IF \E i \in DOMAIN Subscripted : env[Subscripted[i]] = None
    THEN CHOOSE i \in DOMAIN Subscripted :
            /\ env[Subscripted[i]] = None
            /\ \A j \in 1..(i - 1) : env[Subscripted[j]] # None
    ELSE 0

\* the dict get_submission_context returns
ContextOf(env) ==
    LET repo_link == Fmt(env["GITHUB_SERVER_URL"]) \o <<"/">> \o Fmt(env["GITHUB_REPOSITORY"])
    IN  << <<<<"n", "a", "m", "e">>, env["NAME"]>>,
           <<<<"e", "m", "a", "i", "l">>, env["EMAIL"]>>,
           <<<<"r", "e", "s", "u", "m", "e", "_", "l", "i", "n", "k">>, env["RESUME_LINK"]>>,
           <<<<"r", "e", "p", "o", "s", "i", "t", "o", "r", "y", "_", "l", "i", "n", "k">>, repo_link>>,
           <<<<"a", "c", "t", "i", "o", "n", "_", "r", "u", "n", "_", "l", "i", "n", "k">>, repo_link \o <<"/", "a", "c", "t", "i", "o", "n", "s", "/", "r", "u", "n", "s", "/">> \o Fmt(env["GITHUB_RUN_ID"])>>,
           <<<<"s", "i", "g", "n", "i", "n", "g", "_", "s", "e", "c", "r", "e", "t">>, env["SIGNING_SECRET"]>> >>

\* main, step 2: the payload dict
PayloadOf(c, t) ==
    << <<<<"t", "i", "m", "e", "s", "t", "a", "m", "p">>, iso_utc_now(t)>>,
       <<<<"n", "a", "m", "e">>, DictGet(c, <<"n", "a", "m", "e">>)>>,
       <<<<"e", "m", "a", "i", "l">>, DictGet(c, <<"e", "m", "a", "i", "l">>)>>,
       <<<<"r", "e", "s", "u", "m", "e", "_", "l", "i", "n", "k">>, DictGet(c, <<"r", "e", "s", "u", "m", "e", "_", "l", "i", "n", "k">>)>>,
       <<<<"r", "e", "p", "o", "s", "i", "t", "o", "r", "y", "_", "l", "i", "n", "k">>, DictGet(c, <<"r", "e", "p", "o", "s", "i", "t", "o", "r", "y", "_", "l", "i", "n", "k">>)>>,
       <<<<"a", "c", "t", "i", "o", "n", "_", "r", "u", "n", "_", "l", "i", "n", "k">>, DictGet(c, <<"a", "c", "t", "i", "o", "n", "_", "r", "u", "n", "_", "l", "i", "n", "k">>)>> >>

--------------------------------------------------------------------------
\* submit_application: the request, the network and the diagnostics.

Timeout == 30

MaskLen == 15

Request(url, data, sig) ==
    [url |-> url, data |-> data, method |-> <<"P", "O", "S", "T">>, timeout |-> Timeout,
     headers |-> << <<<<"C", "o", "n", "t", "e", "n", "t", "-", "T", "y", "p", "e">>, <<"a", "p", "p", "l", "i", "c", "a", "t", "i", "o", "n", "/", "j", "s", "o", "n", ";", " ", "c", "h", "a", "r", "s", "e", "t", "=", "u", "t", "f", "-", "8">>>>,
                    <<<<"X", "-", "S", "i", "g", "n", "a", "t", "u", "r", "e", "-", "2", "5", "6">>, sig>> >>]

\* the request is sent a second time
IssueRequestTwice(sent, req) == Append(Append(sent, req), req)

\* urlopen(req): one request goes out
IssueRequest(sent, req) == Append(sent, req)

Statuses == {200, 201, 404, 500}

ResponseTexts ==
    { <<"{", "\"", "r", "e", "c", "e", "i", "p", "t", "\"", ":", "\"", "a", "b", "c", "1", "2", "3", "\"", "}">>,
      <<"{", "\"", "o", "k", "\"", ":", "\"", "1", "\"", ",", " ", "\"", "r", "e", "c", "e", "i", "p", "t", "\"", ":", "\"", " ", "r", "\\", "\"", "U+00E9", " ", "\"", "}", "\n">>,
      <<"{", "}">>,
      <<"{", "\"", "r", "e", "c", "e", "i", "p", "t", "\"", ":", "\"", "\"", "}">>,
      <<"{", "\"", "r", "e", "c", "e", "i", "p", "t", "\"", ":", "n", "u", "l", "l", "}">>,
      <<"{", "\"", "e", "r", "r", "o", "r", "\"", ":", "\"", "o", "o", "p", "s", "\"", "}">>,
      <<"[", "]">>,
      <<"n", "u", "l", "l">>,
      <<"\"", "a", "b", "c", "1", "2", "3", "\"">>,
      <<"o", "o", "p", "s">>,
      <<>>,
      <<"{", "\"", "r", "e", "c", "e", "i", "p", "t", "\"", ":", "\"", "a", "b", "c", "1", "2", "3", "\"">> }

\* the bodies a response may hold; <<255>> is not UTF-8
ResponseBodies == {Utf8(t) : t \in ResponseTexts} \cup {<<255>>}

Pending == [kind |-> "pending", status |-> 0, body |-> <<>>]

Outcomes ==
    {[kind |-> "unreachable", status |-> 0, body |-> <<>>],
     [kind |-> "timeout", status |-> 0, body |-> <<>>]}
    \cup [kind : {"response"}, status : Statuses, body : ResponseBodies]

\* the whole signature is printed
MaskedWhole(sig) == sig

\* f"{signature[:15]}..."
Masked(sig) == SubSeq(sig, 1, IF Len(sig) < MaskLen THEN Len(sig) ELSE MaskLen) \o <<".", ".", ".">>

\* the two lines in the other order
DiagnosticLinesSwapped(p, sig) ==
    << <<"S", "i", "g", "n", "a", "t", "u", "r", "e", " ", "(", "m", "a", "s", "k", "e", "d", ")", ":", " ">> \o Masked(sig),
       <<"S", "u", "b", "m", "i", "s", "s", "i", "o", "n", " ", "f", "a", "i", "l", "e", "d", ".", " ", "A", "c", "t", "i", "o", "n", " ", "L", "i", "n", "k", ":", " ">> \o Fmt(DictGet(p, <<"a", "c", "t", "i", "o", "n", "_", "r", "u", "n", "_", "l", "i", "n", "k">>)) >>

\* the two print() calls of the except clause
DiagnosticLines(p, sig) ==
    << <<"S", "u", "b", "m", "i", "s", "s", "i", "o", "n", " ", "f", "a", "i", "l", "e", "d", ".", " ", "A", "c", "t", "i", "o", "n", " ", "L", "i", "n", "k", ":", " ">> \o Fmt(DictGet(p, <<"a", "c", "t", "i", "o", "n", "_", "r", "u", "n", "_", "l", "i", "n", "k">>)),
       <<"S", "i", "g", "n", "a", "t", "u", "r", "e", " ", "(", "m", "a", "s", "k", "e", "d", ")", ":", " ">> \o Masked(sig) >>

--------------------------------------------------------------------------
\* The process: python submit.py.

Init ==
    /\ environ \in {EnvOf(e) : e \in Environments}
    /\ clock \in Clocks
    /\ pc = "main"
    /\ ctx = <<>>
    /\ payload = <<>>
    /\ body = <<>>
    /\ signature = <<>>
    /\ requests = <<>>
    /\ net = Pending
    /\ exc = NoExc
    /\ ret = None
    /\ stdout = <<>>
    /\ stderr = <<>>
    /\ exit_code = -1

\* main, step 1: ctx = get_submission_context()
GetSubmissionContext ==
    /\ pc = "main"
    /\ IF MissingGithubVars(environ["GITHUB_SERVER_URL"], environ["GITHUB_REPOSITORY"],
                            environ["GITHUB_RUN_ID"])
       THEN /\ exc' = Exception(<<"R", "u", "n", "t", "i", "m", "e", "E", "r", "r", "o", "r">>, MissingGitHubMessage)
            /\ pc' = "failed"
            /\ ctx' = ctx
       ELSE IF FirstUnset(environ) # 0
       THEN /\ exc' = KeyError(EnvKey(Subscripted[FirstUnset(environ)]))
            /\ pc' = "failed"
            /\ ctx' = ctx
       ELSE /\ ctx' = ContextOf(environ)
            /\ pc' = "context"
            /\ exc' = exc
    /\ UNCHANGED <<environ, clock, payload, body, signature, requests, net, ret,
                   stdout, stderr, exit_code>>

\* main, step 2: the payload is built from ctx and the clock
BuildPayload ==
    /\ pc = "context"
    /\ payload' = PayloadOf(ctx, clock)
    /\ pc' = "submit"
    /\ UNCHANGED <<environ, clock, ctx, body, signature, requests, net, exc, ret,
                   stdout, stderr, exit_code>>

\* submit_application, up to the try: body, signature and the Request
Prepare ==
    /\ pc = "submit"
    /\ body' = canonical_json(payload)
    /\ signature' = generate_signature(DictGet(ctx, <<"s", "i", "g", "n", "i", "n", "g", "_", "s", "e", "c", "r", "e", "t">>), body')
    /\ pc' = "urlopen"
    /\ UNCHANGED <<environ, clock, ctx, payload, requests, net, exc, ret,
                   stdout, stderr, exit_code>>

\* urlopen(req, timeout=30): the request goes out and the network answers;
\* urlopen raises on a network error, a timeout and a status outside 2xx
Urlopen ==
    /\ pc = "urlopen"
    /\ requests' = IssueRequest(requests, Request(SUBMISSION_URL, body, signature))
    /\ \E o \in Outcomes :
        /\ net' = o
        /\ IF o.kind = "unreachable"
           THEN exc' = Exception(<<"U", "R", "L", "E", "r", "r", "o", "r">>, <<>>) /\ pc' = "except"
           ELSE IF o.kind = "timeout"
           THEN exc' = Exception(<<"T", "i", "m", "e", "o", "u", "t", "E", "r", "r", "o", "r">>, <<>>) /\ pc' = "except"
           ELSE IF o.status < 200 \/ o.status >= 300
           THEN exc' = HTTPError(o.status) /\ pc' = "except"
           ELSE exc' = exc /\ pc' = "response"
    /\ UNCHANGED <<environ, clock, ctx, payload, body, signature, ret,
                   stdout, stderr, exit_code>>

\* the body of the with statement: read, decode, parse, check, return
HandleResponse ==
    /\ pc = "response"
    /\ IF ~Utf8Valid(net.body)
       THEN exc' = Exception(<<"U", "n", "i", "c", "o", "d", "e", "D", "e", "c", "o", "d", "e", "E", "r", "r", "o", "r">>, <<>>) /\ pc' = "except" /\ ret' = ret
       ELSE LET resp_body == Utf8Decode(net.body)
                data == json_loads(resp_body)
            IN  IF ~data.ok
                THEN exc' = Exception(<<"J", "S", "O", "N", "D", "e", "c", "o", "d", "e", "E", "r", "r", "o", "r">>, <<>>) /\ pc' = "except" /\ ret' = ret
                ELSE IF net.status # 200
                THEN exc' = InvalidResponse(net.status, resp_body) /\ pc' = "except" /\ ret' = ret
                ELSE IF data.t # "dict"
                THEN exc' = Exception(<<"A", "t", "t", "r", "i", "b", "u", "t", "e", "E", "r", "r", "o", "r">>, <<>>) /\ pc' = "except" /\ ret' = ret
                ELSE IF ~ReceiptAccepted(DictGet(data.v, <<"r", "e", "c", "e", "i", "p", "t">>))
                THEN exc' = InvalidResponse(net.status, resp_body) /\ pc' = "except" /\ ret' = ret
                ELSE ret' = DictGet(data.v, <<"r", "e", "c", "e", "i", "p", "t">>) /\ pc' = "returned" /\ exc' = exc
    /\ UNCHANGED <<environ, clock, ctx, payload, body, signature, requests, net,
                   stdout, stderr, exit_code>>

\* except Exception as e: two print() calls, then raise e; main has no
\* handler, so the exception leaves main as well
ExceptHandler ==
    /\ pc = "except"
    /\ stdout' = stdout \o DiagnosticLines(payload, signature)
    /\ exc' = exc
    /\ pc' = "failed"
    /\ UNCHANGED <<environ, clock, ctx, payload, body, signature, requests, net, ret,
                   stderr, exit_code>>

\* main, step 3: print(receipt); main returns and the interpreter exits
PrintReceipt ==
    /\ pc = "returned"
    /\ stdout' = Append(stdout, ret)
    /\ exit_code' = 0
    /\ pc' = "exited"
    /\ UNCHANGED <<environ, clock, ctx, payload, body, signature, requests, net,
                   exc, ret, stderr>>

\* an exception nobody caught: traceback on standard error, exit status 1
UncaughtException ==
    /\ pc = "failed"
    /\ stderr' = Append(stderr, TracebackLine(exc))
    /\ exit_code' = 1
    /\ pc' = "exited"
    /\ UNCHANGED <<environ, clock, ctx, payload, body, signature, requests, net,
                   exc, ret, stdout>>

Next ==
    \/ GetSubmissionContext
    \/ BuildPayload
    \/ Prepare
    \/ Urlopen
    \/ HandleResponse
    \/ ExceptHandler
    \/ PrintReceipt
    \/ UncaughtException

Spec == Init /\ [][Next]_vars

--------------------------------------------------------------------------
\* canonical_json on its own: dicts over a few keys and values, built in
\* every insertion order.

MaxMembers == 2

EncKeys == {<<"a">>, <<"b">>, <<"a", "b">>, <<"B">>}

EncValues == {<<"1">>, <<"2">>, <<"x", " ", "y", "\n", "\"", "U+00E9">>}

RECURSIVE DictsOfSize(_)
\* the dicts with n members, in every insertion order
DictsOfSize(n) ==
    IF n = 0 THEN {<<>>}
    ELSE {Append(d, <<k, v>>) :
            d \in DictsOfSize(n - 1), k \in EncKeys, v \in EncValues}

EncPayloads ==
    {d \in UNION {DictsOfSize(n) : n \in 0..MaxMembers} :
        Cardinality(DictKeys(d)) = Len(d)}

\* the dicts holding the items of d, in every insertion order
Orders(d) ==
    {[i \in DOMAIN d |-> d[f[i]]] :
        f \in {g \in [DOMAIN d -> DOMAIN d] : \A i, j \in DOMAIN d : i # j => g[i] # g[j]}}

EncInit ==
    /\ payload \in EncPayloads
    /\ pc = "encode"
    /\ environ = EnvOf([n \in EnvNames |-> "unset"])
    /\ clock \in Clocks
    /\ ctx = <<>>
    /\ body = <<>>
    /\ signature = <<>>
    /\ requests = <<>>
    /\ net = Pending
    /\ exc = NoExc
    /\ ret = None
    /\ stdout = <<>>
    /\ stderr = <<>>
    /\ exit_code = -1

\* body = canonical_json(payload)
Encode ==
    /\ pc = "encode"
    /\ body' = canonical_json(payload)
    /\ pc' = "encoded"
    /\ UNCHANGED <<environ, clock, ctx, payload, signature, requests, net, exc, ret,
                   stdout, stderr, exit_code>>

\* the same items put into a new dict in another order
Rebuild ==
    /\ pc = "encoded"
    /\ payload' \in Orders(payload) \ {payload}
    /\ body' = <<>>
    /\ pc' = "encode"
    /\ UNCHANGED <<environ, clock, ctx, signature, requests, net, exc, ret,
                   stdout, stderr, exit_code>>

EncNext == Encode \/ Rebuild

SpecEnc == EncInit /\ [][EncNext]_vars

--------------------------------------------------------------------------
\* Properties.

\* submit_application was entered and has been left, by return or by raise
SubmitLeft == requests # <<>> /\ pc \in {"returned", "failed", "exited"}

\* the response, read the way the specification words it: status 200, a JSON object,
\* and a receipt member that is a non-empty string
ResponseDoc == json_loads(Utf8Decode(net.body))

GoodResponse ==
    /\ net.kind = "response"
    /\ net.status = 200
    /\ Utf8Valid(net.body)
    /\ ResponseDoc.ok
    /\ ResponseDoc.t = "dict"
    /\ \E i \in DOMAIN ResponseDoc.v :
          /\ ResponseDoc.v[i][1] = <<"r", "e", "c", "e", "i", "p", "t">>
          /\ ResponseDoc.v[i][2] # None
          /\ Len(ResponseDoc.v[i][2]) > 0

ReceiptOfResponse ==
    (CHOOSE item \in {ResponseDoc.v[i] : i \in DOMAIN ResponseDoc.v} :
        item[1] = <<"r", "e", "c", "e", "i", "p", "t">>)[2]

\* C1: submit_application returns iff the response has status 200 and a JSON
\* body with a non-empty receipt, and then it returns that receipt unchanged;
\* after every other response it raises and returns nothing.
C1_ReturnsIffReceipt ==
    SubmitLeft =>
        /\ (ret # None) <=> GoodResponse
        /\ GoodResponse => (ret = ReceiptOfResponse /\ exc = NoExc)
        /\ ~GoodResponse => (ret = None /\ exc # NoExc)

C1_Witness ==
    /\ pc = "returned"
    /\ net.status = 200
    /\ ret = <<" ", "r", "\"", "U+00E9", " ">>

C3_SignatureMatchesBody ==
    \A i \in DOMAIN requests :
        /\ requests[i].data = canonical_json(payload)
        /\ requests[i].method = <<"P", "O", "S", "T">>
        /\ DictGet(requests[i].headers, <<"X", "-", "S", "i", "g", "n", "a", "t", "u", "r", "e", "-", "2", "5", "6">>)
             = <<"s", "h", "a", "2", "5", "6", "=">> \o Hex(HmacDigest(Utf8(environ["SIGNING_SECRET"]), requests[i].data))
        /\ Len(DictGet(requests[i].headers, <<"X", "-", "S", "i", "g", "n", "a", "t", "u", "r", "e", "-", "2", "5", "6">>)) = 7 + 2 * DigestSize

C3_Witness ==
    /\ requests # <<>>
    /\ environ["SIGNING_SECRET"] = <<"s", "3", "c", "r", "e", "t">>
    /\ DictGet(requests[1].headers, <<"X", "-", "S", "i", "g", "n", "a", "t", "u", "r", "e", "-", "2", "5", "6">>) = signature
    /\ requests[1].data = body

\* what the two diagnostic lines must hold
ActionLinkLine(line) ==
    LET link == DictGet(payload, <<"a", "c", "t", "i", "o", "n", "_", "r", "u", "n", "_", "l", "i", "n", "k">>)
    IN  /\ Len(line) >= Len(link)
        /\ SubSeq(line, Len(line) - Len(link) + 1, Len(line)) = link

MaskedSignatureLine(line) ==
    LET shown == SubSeq(signature, 1, MaskLen) \o <<".", ".", ".">>
    IN  /\ Len(line) >= Len(shown)
        /\ SubSeq(line, Len(line) - Len(shown) + 1, Len(line)) = shown

\* C4: when submit_application fails after the request was attempted, it
\* has printed exactly two lines, the action_run_link and then the masked
\* signature, and the exception that leaves is the one that was raised; on
\* the way to a return nothing but the receipt is printed.
C4_DiagnosticsThenSameError ==
    /\ [](/\ (requests # <<>> /\ pc \in {"failed", "exited"} /\ ret = None) =>
               /\ Len(stdout) = 2
               /\ ActionLinkLine(stdout[1])
               /\ MaskedSignatureLine(stdout[2])
               /\ exc # NoExc
          /\ pc \in {"urlopen", "response", "except", "returned"} => stdout = <<>>
          /\ (pc = "exited" /\ ret # None) => stdout = <<ret>>)
    /\ [][/\ pc = "except" => (exc' = exc /\ pc' = "failed")
          /\ (pc' = "failed" /\ requests' # <<>>) => pc = "except"]_vars

C4_Witness ==
    /\ pc = "failed"
    /\ exc = HTTPError(500)
    /\ Len(stdout) = 2
    /\ stdout[1] # stdout[2]

\* everything the process has written
Written == {stdout[i] : i \in DOMAIN stdout} \cup {stderr[i] : i \in DOMAIN stderr}

\* C5: nothing written holds the signature, nor any MaskLen + 1 characters
\* of it in a row; the masked line shows its first MaskLen characters and
\* then the ellipsis.
C5_SignatureNeverWritten ==
    signature # <<>> =>
        /\ \A line \in Written \cup {exc.msg} :
              /\ ~Contains(line, signature)
              /\ \A j \in 1..(Len(signature) - MaskLen) :
                    ~Contains(line, SubSeq(signature, j, j + MaskLen))
        /\ (pc \in {"failed", "exited"} /\ ret = None) =>
              /\ Len(stdout) = 2
              /\ stdout[2] = <<"S", "i", "g", "n", "a", "t", "u", "r", "e", " ", "(", "m", "a", "s", "k", "e", "d", ")", ":", " ">> \o SubSeq(signature, 1, MaskLen) \o <<".", ".", ".">>

C5_Witness ==
    /\ pc = "exited"
    /\ Len(signature) = 7 + 2 * DigestSize
    /\ Len(stdout) = 2
    /\ Contains(stdout[2], SubSeq(signature, 1, MaskLen))
    /\ stderr # <<>>

\* C6: with a required variable unset, main fails in get_submission_context:
\* no context, no payload, no request.
C6_UnsetVariableNoRequest ==
    (\E n \in EnvNames : environ[n] = None) =>
        /\ requests = <<>>
        /\ ctx = <<>>
        /\ payload = <<>>
        /\ pc \in {"main", "failed", "exited"}
        /\ pc # "main" => exc.type \in {<<"R", "u", "n", "t", "i", "m", "e", "E", "r", "r", "o", "r">>, <<"K", "e", "y", "E", "r", "r", "o", "r">>}

C6_Witness ==
    /\ pc = "exited"
    /\ environ["GITHUB_SERVER_URL"] = None
    /\ environ["NAME"] # None
    /\ exc = Exception(<<"R", "u", "n", "t", "i", "m", "e", "E", "r", "r", "o", "r">>, MissingGitHubMessage)
    /\ requests = <<>>
    /\ exit_code = 1

PayloadKeys ==
    {<<"t", "i", "m", "e", "s", "t", "a", "m", "p">>, <<"n", "a", "m", "e">>, <<"e", "m", "a", "i", "l">>, <<"r", "e", "s", "u", "m", "e", "_", "l", "i", "n", "k">>, <<"r", "e", "p", "o", "s", "i", "t", "o", "r", "y", "_", "l", "i", "n", "k">>,
     <<"a", "c", "t", "i", "o", "n", "_", "r", "u", "n", "_", "l", "i", "n", "k">>}

\* C7: whenever a request has been sent, the payload has exactly the six
\* keys and every value is a non-empty string, and no variable of the
\* environment is set to the empty string.
C7_PayloadValuesNonEmpty ==
    requests # <<>> =>
        /\ DictKeys(payload) = PayloadKeys
        /\ \A i \in DOMAIN payload : payload[i][2] # None /\ payload[i][2] # <<>>
        /\ \A n \in EnvNames : environ[n] # <<>>

\* the exception kind of the source's own "Invalid response" error
SubmissionErrorKind == <<"R", "u", "n", "t", "i", "m", "e", "E", "r", "r", "o", "r">>

\* C9: every failure of submit_application reaches the caller as one and the
\* same kind of error, which carries the status code and the raw body text.
C9_OneErrorKind ==
    (SubmitLeft /\ ret = None) =>
        /\ exc.type = SubmissionErrorKind
        /\ (net.kind = "response" /\ Utf8Valid(net.body)) =>
              /\ Contains(exc.msg, Pad(net.status, 1))
              /\ Contains(exc.msg, Utf8Decode(net.body))

\* C10: at exit, standard output holds the receipt alone on success and
\* nothing on failure, the two diagnostic lines being on standard error,
\* and the exit status is non-zero on failure.
C10_StdoutOnlyReceipt ==
    pc = "exited" =>
        IF ret # None
        THEN stdout = <<ret>> /\ exit_code = 0
        ELSE /\ stdout = <<>>
             /\ exit_code # 0
             /\ requests # <<>> =>
                  /\ \E i \in DOMAIN stderr : ActionLinkLine(stderr[i])
                  /\ \E i \in DOMAIN stderr : MaskedSignatureLine(stderr[i])

\* the keys of a dict in ascending order
RECURSIVE Ascending(_)
Ascending(keys) ==
    IF keys = {} THEN <<>>
    ELSE LET least == CHOOSE k \in keys : \A j \in keys \ {k} : StrLess(k, j)
         IN  <<least>> \o Ascending(keys \ {least})

\* the JSON text the claim describes: members by ascending key, "key":"value",
\* a comma between two members and nothing else between the braces
RECURSIVE MembersText(_, _)
MembersText(d, keys) ==
    IF keys = <<>> THEN <<>>
    ELSE <<"\"">> \o EscapeStr(Head(keys)) \o <<"\"", ":", "\"">> \o EscapeStr(DictGet(d, Head(keys))) \o <<"\"">>
         \o (IF Len(keys) > 1 THEN <<",">> ELSE <<>>)
         \o MembersText(d, Tail(keys))

\* how many of the bytes b are n
Count(b, n) == Cardinality({i \in DOMAIN b : b[i] = n})

\* the space characters inside the keys and values of d
RECURSIVE SpacesIn(_)
SpacesIn(d) ==
    IF d = <<>> THEN 0
    ELSE Count(Head(d)[1], " ") + Count(Head(d)[2], " ") + SpacesIn(Tail(d))

\* C8: canonical_json gives the object with its members in strictly
\* ascending key order and no whitespace between tokens, so every insertion
\* order of the same items gives the same bytes; {"b":"2","a":"1"} gives
\* {"a":"1","b":"2"}.
C8_CanonicalEncoding ==
    pc = "encoded" =>
        /\ body = Utf8(<<"{">> \o MembersText(payload, Ascending(DictKeys(payload))) \o <<"}">>)
        /\ \A other \in Orders(payload) : canonical_json(other) = body
        /\ Count(body, 10) = 0
        /\ Count(body, 9) = 0
        /\ Count(body, 32) = SpacesIn(payload)
        /\ payload = << <<<<"b">>, <<"2">>>>, <<<<"a">>, <<"1">>>> >>
              => body = Utf8(<<"{", "\"", "a", "\"", ":", "\"", "1", "\"", ",", "\"", "b", "\"", ":", "\"", "2", "\"", "}">>)

C8_Witness ==
    /\ pc = "encoded"
    /\ payload = << <<<<"b">>, <<"2">>>>, <<<<"a">>, <<"1">>>> >>
    /\ body = Utf8(<<"{", "\"", "a", "\"", ":", "\"", "1", "\"", ",", "\"", "b", "\"", ":", "\"", "2", "\"", "}">>)

==========================================================================
